---- MODULE Spec2Model ----
(***************************************************************************)
(* populate_db.py: the schema script STAGING_CREATE_SQL, connect_databases, *)
(* the paged transfer load_sqlite_to_postgres and the __main__ block.       *)
(*                                                                          *)
(* Spec      load_sqlite_to_postgres called with two live connections and   *)
(*           a batch size, statement by statement (lines 79-125).           *)
(* SpecMain  the file executed as a script (lines 1-147), statement by      *)
(*           statement, up to the statement that ends the run.              *)
(***************************************************************************)
EXTENDS Integers, Sequences, FiniteSets, TLC

\* ------------------------------------------------------------------ bounds
MaxTables == 2
MaxRows == 5
MaxBatch == 2

\* --------------------------------------------------------------- the schema
\* The six tables of STAGING_CREATE_SQL.
Tables == {"Region", "Country", "Customer", "ProductCategory", "Product", "OrderDetail"}

NoTable == "-"

\* The DROP statements in the order the script lists them (lines 12-17).
DropOrder == <<"ProductCategory", "OrderDetail", "Product", "Customer", "Country", "Region">>

\* Tables with a UNIQUE text column (lines 21, 25, 40, 45).
UniqueTables == {"Region", "Country", "ProductCategory", "Product"}

\* FOREIGN KEY ... REFERENCES of column ref (lines 27, 36, 48, 56).
Parent1(t) ==
    CASE t = "Country" -> "Region"
      [] t = "Customer" -> "Country"
      [] t = "Product" -> "ProductCategory"
      [] t = "OrderDetail" -> "Customer"
      [] OTHER -> NoTable

\* The second FOREIGN KEY of OrderDetail, column ref2 (line 57).
Parent2(t) == IF t = "OrderDetail" THEN "Product" ELSE NoTable

\* The tables a table references.
References(t) == {Parent1(t), Parent2(t)} \ {NoTable}

\* Bits of significand of a PostgreSQL REAL (ProductUnitPrice REAL, line 46);
\* the source store keeps the column as an 8-byte float.
Float4Mantissa == 24

\* What a REAL column stores for an integer-valued price p < 2^(Float4Mantissa+1):
\* exact up to 2^24, above it the nearest even integer (ties to even significand).
Float4(p) ==
    IF p <= 2 ^ Float4Mantissa THEN p
    ELSE IF p % 2 = 0 THEN p
    ELSE IF ((p - 1) \div 2) % 2 = 0 THEN p - 1 ELSE p + 1

\* The value the target stores for a source row: every column as is, except the
\* REAL column of Product.
Coerce(t, r) == IF t = "Product" THEN [r EXCEPT !.price = Float4(r.price)] ELSE r

\* ------------------------------------------------------------------- rows
\* A row: primary key id, text column name (UNIQUE in UniqueTables), foreign
\* keys ref and ref2 (0 where the table has none), REAL column price (Product).
MkRow(i, nm, r1, r2, p) == [id |-> i, name |-> nm, ref |-> r1, ref2 |-> r2, price |-> p]

\* A key no parent row has.
DanglingRef == MaxRows + 5

\* The primary key and the text of rows only the target holds.
OtherId == MaxRows + 6

OtherName == MaxRows + 7

\* Prices of the source's Product rows start at one of these.
PriceBases == {1999, 2 ^ Float4Mantissa}

\* Row i of source table t: keys 1..n in rowid order, distinct texts, references
\* to parent row 1 except in row bad.
SrcRow(t, i, bad, base) ==
    MkRow(i, i,
          IF Parent1(t) = NoTable THEN 0 ELSE IF i = bad THEN DanglingRef ELSE 1,
          IF Parent2(t) = NoTable THEN 0 ELSE 1,
          IF t = "Product" THEN base + i - 1 ELSE 0)

\* What the target may hold of a table before the run.
PreKinds == {"none", "same", "stale", "clash"}

PreRows(t, kind, base) ==
    LET r1 == IF Parent1(t) = NoTable THEN 0 ELSE 1
        r2 == IF Parent2(t) = NoTable THEN 0 ELSE 1
        p  == IF t = "Product" THEN Float4(base) ELSE 0
    IN CASE kind = "none" -> {}
         [] kind = "same" -> {MkRow(1, 1, r1, r2, p)}
         [] kind = "stale" -> {MkRow(1, OtherName, r1, r2, p)}
         [] kind = "clash" -> {MkRow(OtherId, 1, r1, r2, p)}

\* Sequences over S without repetition, of length at most n.
RECURSIVE Catalogs(_, _)
Catalogs(S, n) ==
    IF n = 0 THEN {<< >>}
    ELSE LET shorter == Catalogs(S, n - 1)
         IN shorter \cup {Append(c, t) : c \in shorter, t \in S}

NoRepeat(c) == \A i, j \in 1..Len(c) : i # j => c[i] # c[j]

Range(s) == {s[i] : i \in 1..Len(s)}

Min(a, b) == IF a < b THEN a ELSE b

\* ceil(n / b)
Ceil(n, b) == (n + b - 1) \div b

\* ---------------------------------------------------------------- the state
VARIABLES
    src,          \* the source store: catalog (table names in sqlite_master order), rows
    tgt0,         \* the target's committed rows before the run
    tgt,          \* the target's committed rows, per table
    pending,      \* rows inserted by the open target transaction, not yet committed
    batch_size,   \* the parameter of load_sqlite_to_postgres
    pc,           \* position in load_sqlite_to_postgres
    tables,       \* the list read from the catalog (line 86)
    ti,           \* index of the for loop's current table
    pos,          \* rows of the current table the source cursor has handed out
    rows,         \* the page fetchmany returned (line 103)
    total_rows_table,
    exc,          \* the exception the try block raised, "none" if none
    propagate,    \* the except block itself raised
    rollbacks,    \* calls of conn_p.rollback()
    fetches,      \* calls of cur_s.fetchmany
    insertLog,    \* per table, the sizes of the pages handed to execute_values
    commits,      \* per table, the calls of conn_p.commit() that returned
    finished,     \* tables whose while loop ended by exhaustion (line 105)
    failed,       \* the table and page whose insert raised, if any
    opened,       \* connections and cursors opened so far
    closed,       \* connections and cursors closed so far
    mpc,          \* position in the script
    ns,           \* names bound in the namespace the script is executed in
    env,          \* what the script finds: secrets, source, target, DDL accepted
    run,          \* which of the successive runs of the script this is
    ddlLog,       \* the DROP statements the target has executed, in order
    ddlOpen,      \* the DDL sits in an open, uncommitted transaction
    ddlCommitted, \* the schema script has been committed in this run
    uncaught,     \* the exception that ended the run, "none" if none
    tgtAfter1     \* the target's committed rows when the first run ended

loadVars == <<src, tgt0, tgt, pending, batch_size, pc, tables, ti, pos, rows,
              total_rows_table, exc, propagate, rollbacks, fetches, insertLog,
              commits, finished, failed>>

mainVars == <<mpc, ns, env, run, ddlLog, ddlOpen, ddlCommitted, uncaught, tgtAfter1>>

vars == <<loadVars, opened, closed, mainVars>>

\* ------------------------------------------------- the stores and the insert
\* The tables the bounded source catalogs are drawn from.
SourceTables == {"Region", "Country", "Product"}

\* batch_size=25000 (line 79)
DefaultBatchSize == 25000

BatchSizes == (1..MaxBatch) \cup {DefaultBatchSize}

\* An empty store of the six tables.
EmptyStore == [t \in Tables |-> {}]

RECURSIVE Ancestors(_)
Ancestors(t) == References(t) \cup UNION {Ancestors(p) : p \in References(t)}

\* The row's foreign keys all resolve in store T.
FKResolves(T, t, r) ==
    /\ Parent1(t) # NoTable => \E q \in T[Parent1(t)] : q.id = r.ref
    /\ Parent2(t) # NoTable => \E q \in T[Parent2(t)] : q.id = r.ref2

\* Store T satisfies the constraints of lines 19-58: primary keys and UNIQUE
\* texts are unique, foreign keys resolve, REAL columns hold REAL values.
SchemaOK(T) ==
    \A t \in Tables :
        /\ \A r, q \in T[t] :
              (r.id = q.id \/ (t \in UniqueTables /\ r.name = q.name)) => r = q
        /\ \A r \in T[t] : FKResolves(T, t, r) /\ Coerce(t, r) = r

\* Row r collides with a row of held on the primary key or on the UNIQUE column:
\* the arbiter of ON CONFLICT DO NOTHING without a conflict target (line 97).
Conflicts(t, r, held) ==
    \E e \in held : e.id = r.id \/ (t \in UniqueTables /\ e.name = r.name)

\* Accepted with the skip made per page: one colliding row and the statement
\* adds nothing.
AcceptedAllOrNothing(t, page, held) ==
    IF \E i \in 1..Len(page) : Conflicts(t, Coerce(t, page[i]), held)
    THEN {}
    ELSE {Coerce(t, page[i]) : i \in 1..Len(page)}

\* The rows one INSERT ... VALUES ... ON CONFLICT DO NOTHING adds to a table
\* holding `held`: the page's rows in order, each stored under the column types,
\* each skipped when it collides with a row held or added before it.
RECURSIVE Accepted(_, _, _)
Accepted(t, page, held) ==
    IF page = << >> THEN {}
    ELSE LET r == Coerce(t, Head(page))
         IN IF Conflicts(t, r, held)
            THEN Accepted(t, Tail(page), held)
            ELSE {r} \cup Accepted(t, Tail(page), held \cup {r})

\* ExecuteValues without the ON CONFLICT clause: a colliding row fails the
\* statement.
ExecuteValuesPlainInsert(T, t, page) ==
    LET new == {Coerce(t, page[i]) : i \in 1..Len(page)}
    IN IF \/ \E r \in new : Conflicts(t, r, T[t])
          \/ \E r \in new : ~FKResolves(T, t, r)
       THEN [ok |-> FALSE, new |-> {}]
       ELSE [ok |-> TRUE, new |-> new]

\* execute_values(cur_p, insert_query, rows, page_size=batch_size) (line 107):
\* len(rows) <= page_size, so one statement. The foreign keys of the rows it
\* added are checked when the statement ends; one failure fails the statement
\* and nothing of it stays.
ExecuteValues(T, t, page) ==
    LET new == Accepted(t, page, T[t])
    IN IF \E r \in new : ~FKResolves(T, t, r)
       THEN [ok |-> FALSE, new |-> {}]
       ELSE [ok |-> TRUE, new |-> new]

\* FetchMany handing out one row more than asked for.
FetchManyOneMore(all, done, size) == SubSeq(all, done + 1, Min(done + size + 1, Len(all)))

\* cur_s.fetchmany(batch_size) (line 103): the next rows of the result, at most
\* size of them.
FetchMany(all, done, size) == SubSeq(all, done + 1, Min(done + size, Len(all)))

NoFail == [table |-> NoTable, page |-> 0]

ZeroLog == [t \in Tables |-> << >>]

ZeroCount == [t \in Tables |-> 0]

\* The script's variables while load_sqlite_to_postgres is called on its own.
MainIdle ==
    /\ mpc = "unused"
    /\ ns = {}
    /\ env = [secrets |-> TRUE, source |-> TRUE, target |-> TRUE, ddl |-> TRUE]
    /\ run = 1
    /\ ddlLog = << >>
    /\ ddlOpen = FALSE
    /\ ddlCommitted = FALSE
    /\ uncaught = "none"
    /\ tgtAfter1 = EmptyStore

\* The function's variables before it is called.
LoadIdle ==
    /\ pc = "idle"
    /\ tables = << >>
    /\ ti = 0
    /\ pos = 0
    /\ rows = << >>
    /\ total_rows_table = 0
    /\ exc = "none"
    /\ propagate = FALSE
    /\ rollbacks = 0
    /\ fetches = 0
    /\ insertLog = ZeroLog
    /\ commits = ZeroCount
    /\ finished = {}
    /\ failed = NoFail
    /\ pending = {}

\* The target before the run: one table of the catalog may hold a row (the
\* source's row 1, a row with its key and another text, or a row with its text
\* and another key), and the tables the catalog's tables descend from may hold
\* their row 1.
InitialTarget(catalog, preT, kind, held, base) ==
    [t \in Tables |->
        IF t = preT THEN PreRows(t, kind, base)
        ELSE IF held /\ t \in UNION {Ancestors(c) : c \in Range(catalog)}
             THEN PreRows(t, "same", base)
             ELSE {}]

\* load_sqlite_to_postgres(conn_s, conn_p, batch_size) is about to be called:
\* both connections are live, the source holds a catalog of tables with n rows
\* each, the target holds rows that satisfy its schema.
Init ==
    /\ MainIdle
    /\ LoadIdle
    /\ \E catalog \in {c \in Catalogs(SourceTables, MaxTables) : NoRepeat(c)},
          n \in 0..MaxRows, bad \in 0..MaxRows, base \in PriceBases,
          preT \in SourceTables \cup {NoTable}, kind \in PreKinds \ {"none"},
          held \in BOOLEAN :
          /\ bad <= n
          /\ bad # 0 => \E c \in Range(catalog) : Parent1(c) # NoTable
          /\ "Product" \notin Range(catalog) => base = 1999
          /\ preT = NoTable => kind = "same"
          /\ preT # NoTable => preT \in Range(catalog)
          /\ kind = "clash" => preT \in UniqueTables
          /\ SchemaOK(InitialTarget(catalog, preT, kind, held, base))
          /\ src = [catalog |-> catalog,
                    rows |-> [t \in Tables |->
                                 IF t \in Range(catalog)
                                 THEN [i \in 1..n |-> SrcRow(t, i, bad, base)]
                                 ELSE << >>]]
          /\ tgt0 = InitialTarget(catalog, preT, kind, held, base)
    /\ tgt = tgt0
    /\ batch_size \in BatchSizes
    /\ opened = {"conn_s", "conn_p"}
    /\ closed = {}

\* ------------------------------------------------- load_sqlite_to_postgres
Table == tables[ti]

\* lines 81-83: the two cursors.
OpenCursors ==
    /\ pc = "idle"
    /\ mpc = "unused"
    /\ opened' = opened \cup {"cur_s", "cur_p"}
    /\ pc' = "list"
    /\ UNCHANGED <<src, tgt0, tgt, pending, batch_size, tables, ti, pos, rows,
                   total_rows_table, exc, propagate, rollbacks, fetches, insertLog,
                   commits, finished, failed, closed, mainVars>>

\* lines 85-86: the table names, in the catalog's order.
ListTables ==
    /\ pc = "list"
    /\ tables' = src.catalog
    /\ ti' = 1
    /\ pc' = "for"
    /\ UNCHANGED <<src, tgt0, tgt, pending, batch_size, pos, rows,
                   total_rows_table, exc, propagate, rollbacks, fetches, insertLog,
                   commits, finished, failed, opened, closed, mainVars>>

\* lines 88-99: the next table of the for loop; SELECT * FROM table.
StartTable ==
    /\ pc = "for"
    /\ ti <= Len(tables)
    /\ pos' = 0
    /\ total_rows_table' = 0
    /\ pc' = "fetch"
    /\ UNCHANGED <<src, tgt0, tgt, pending, batch_size, tables, ti, rows,
                   exc, propagate, rollbacks, fetches, insertLog,
                   commits, finished, failed, opened, closed, mainVars>>

\* line 88: the for loop is exhausted; on to the finally block.
EndLoop ==
    /\ pc = "for"
    /\ ti > Len(tables)
    /\ pc' = "finally"
    /\ UNCHANGED <<src, tgt0, tgt, pending, batch_size, tables, ti, pos, rows,
                   total_rows_table, exc, propagate, rollbacks, fetches, insertLog,
                   commits, finished, failed, opened, closed, mainVars>>

\* lines 100-105 and 114-116: fetch a page; an empty page ends the table.
FetchPage ==
    /\ pc = "fetch"
    /\ LET page == FetchMany(src.rows[Table], pos, batch_size)
       IN /\ rows' = page
          /\ pos' = pos + Len(page)
          /\ fetches' = fetches + 1
          /\ IF page = << >>
             THEN /\ finished' = finished \cup {Table}
                  /\ ti' = ti + 1
                  /\ pc' = "for"
             ELSE /\ pc' = "insert"
                  /\ UNCHANGED <<finished, ti>>
    /\ UNCHANGED <<src, tgt0, tgt, pending, batch_size, tables,
                   total_rows_table, exc, propagate, rollbacks, insertLog,
                   commits, failed, opened, closed, mainVars>>

\* line 107: the bulk insert of the page; a foreign key that does not resolve
\* raises.
InsertPage ==
    /\ pc = "insert"
    /\ insertLog' = [insertLog EXCEPT ![Table] = Append(@, Len(rows))]
    /\ LET res == ExecuteValues(tgt, Table, rows)
       IN IF res.ok
          THEN /\ pending' = res.new
               /\ pc' = "commit"
               /\ UNCHANGED <<exc, failed>>
          ELSE /\ exc' = "fk"
               /\ failed' = [table |-> Table, page |-> Len(insertLog'[Table])]
               /\ pc' = "except"
               /\ UNCHANGED pending
    /\ UNCHANGED <<src, tgt0, tgt, batch_size, tables, ti, pos, rows,
                   total_rows_table, propagate, rollbacks, fetches,
                   commits, finished, opened, closed, mainVars>>

\* CommitPage without the commit: the page stays in the open transaction.
CommitPageDeferred ==
    /\ pc = "commit"
    /\ total_rows_table' = total_rows_table + Len(rows)
    /\ pc' = "fetch"
    /\ UNCHANGED <<src, tgt0, tgt, pending, batch_size, tables, ti, pos, rows,
                   exc, propagate, rollbacks, fetches, insertLog, commits,
                   finished, failed, opened, closed, mainVars>>

\* lines 108-113: commit the page, count its rows.
CommitPage ==
    /\ pc = "commit"
    /\ tgt' = [tgt EXCEPT ![Table] = @ \cup pending]
    /\ pending' = {}
    /\ commits' = [commits EXCEPT ![Table] = @ + 1]
    /\ total_rows_table' = total_rows_table + Len(rows)
    /\ pc' = "fetch"
    /\ UNCHANGED <<src, tgt0, batch_size, tables, ti, pos, rows,
                   exc, propagate, rollbacks, fetches, insertLog,
                   finished, failed, opened, closed, mainVars>>

\* A statement on the source cursor raises (lines 85, 93, 103).
SourceError ==
    /\ \/ pc = "list"
       \/ pc = "for" /\ ti <= Len(tables)
       \/ pc = "fetch"
    /\ exc' = "read"
    /\ pc' = "except"
    /\ UNCHANGED <<src, tgt0, tgt, pending, batch_size, tables, ti, pos, rows,
                   total_rows_table, propagate, rollbacks, fetches, insertLog,
                   commits, finished, failed, opened, closed, mainVars>>

\* The insert raises for another reason than the page's rows (line 107).
InsertError ==
    /\ pc = "insert"
    /\ insertLog' = [insertLog EXCEPT ![Table] = Append(@, Len(rows))]
    /\ failed' = [table |-> Table, page |-> Len(insertLog'[Table])]
    /\ exc' = "target"
    /\ pc' = "except"
    /\ UNCHANGED <<src, tgt0, tgt, pending, batch_size, tables, ti, pos, rows,
                   total_rows_table, propagate, rollbacks, fetches,
                   commits, finished, opened, closed, mainVars>>

\* The commit raises and the page is not committed (line 108).
CommitError ==
    /\ pc = "commit"
    /\ exc' = "commit"
    /\ pc' = "except"
    /\ UNCHANGED <<src, tgt0, tgt, pending, batch_size, tables, ti, pos, rows,
                   total_rows_table, propagate, rollbacks, fetches, insertLog,
                   commits, finished, failed, opened, closed, mainVars>>

\* Rollback with the handler inside the for loop: the loop goes on with the
\* next table.
RollbackAndContinue ==
    /\ pc = "except"
    /\ rollbacks' = rollbacks + 1
    /\ pending' = {}
    /\ ti' = ti + 1
    /\ pc' = "for"
    /\ UNCHANGED <<src, tgt0, tgt, batch_size, tables, pos, rows,
                   total_rows_table, exc, propagate, fetches, insertLog,
                   commits, finished, failed, opened, closed, mainVars>>

\* lines 117-119: the handler rolls the open transaction back.
Rollback ==
    /\ pc = "except"
    /\ rollbacks' = rollbacks + 1
    /\ pending' = {}
    /\ pc' = "finally"
    /\ UNCHANGED <<src, tgt0, tgt, batch_size, tables, ti, pos, rows,
                   total_rows_table, exc, propagate, fetches, insertLog,
                   commits, finished, failed, opened, closed, mainVars>>

\* line 119: the rollback itself raises; the server drops the transaction.
RollbackError ==
    /\ pc = "except"
    /\ rollbacks' = rollbacks + 1
    /\ pending' = {}
    /\ propagate' = TRUE
    /\ pc' = "finally"
    /\ UNCHANGED <<src, tgt0, tgt, batch_size, tables, ti, pos, rows,
                   total_rows_table, exc, fetches, insertLog,
                   commits, finished, failed, opened, closed, mainVars>>

\* lines 120-125: both cursors are closed; the function returns, or the
\* handler's exception goes on to the caller.
Finally ==
    /\ pc = "finally"
    /\ closed' = closed \cup {"cur_s", "cur_p"}
    /\ pc' = IF propagate THEN "raised" ELSE "returned"
    /\ UNCHANGED <<src, tgt0, tgt, pending, batch_size, tables, ti, pos, rows,
                   total_rows_table, exc, propagate, rollbacks, fetches, insertLog,
                   commits, finished, failed, opened, mainVars>>

Next ==
    \/ OpenCursors
    \/ ListTables
    \/ StartTable
    \/ EndLoop
    \/ FetchPage
    \/ InsertPage
    \/ CommitPage
    \/ SourceError
    \/ InsertError
    \/ CommitError
    \/ Rollback
    \/ RollbackError
    \/ Finally

Spec == Init /\ [][Next]_vars

\* ------------------------------------------------------------- the script
\* The names the script reads from its namespace without binding them first:
\* DATABASE_URL, the default of connect_databases' parameter, evaluated when the
\* def statement runs (line 70, bound only at line 130), and psycopg2 (line 73;
\* line 4 imports execute_values from psycopg2.extras and binds no psycopg2).
FreeNames == {"DATABASE_URL", "psycopg2"}

\* The methods of a psycopg2 cursor the script calls or could call; commit and
\* rollback are methods of the connection.
CursorMethods == {"execute", "executemany", "fetchone", "fetchmany", "fetchall", "close"}

\* ConnectDatabases that does not notice a target out of reach.
ConnectDatabasesTargetUnchecked(e, names) ==
    IF ~e.source THEN [ok |-> FALSE, opens |-> {}]
    ELSE IF "psycopg2" \notin names
         THEN [ok |-> FALSE, opens |-> {"conn_s"}]
         ELSE [ok |-> TRUE, opens |-> {"conn_s", "conn_p"}]

\* connect_databases (lines 70-77): sqlite3.connect, then psycopg2.connect; any
\* exception is printed and None is returned, whatever was opened before it.
ConnectDatabases(e, names) ==
    IF ~e.source THEN [ok |-> FALSE, opens |-> {}]
    ELSE IF "psycopg2" \notin names \/ ~e.target
         THEN [ok |-> FALSE, opens |-> {"conn_s"}]
         ELSE [ok |-> TRUE, opens |-> {"conn_s", "conn_p"}]

\* The script is started: python populate_db.py gives it a namespace with no
\* name of FreeNames; an interpreter session or runpy.run_path with
\* init_globals may give it either.
InitMain ==
    /\ LoadIdle
    /\ mpc = "start"
    /\ ns \in SUBSET FreeNames
    /\ env \in [secrets : BOOLEAN, source : BOOLEAN, target : BOOLEAN, ddl : BOOLEAN]
    /\ run = 1
    /\ ddlLog = << >>
    /\ ddlOpen = FALSE
    /\ ddlCommitted = FALSE
    /\ uncaught = "none"
    /\ tgtAfter1 = EmptyStore
    /\ \E catalog \in {c \in Catalogs(SourceTables, 1) : NoRepeat(c)},
          n \in 0..1, held \in BOOLEAN :
          /\ src = [catalog |-> catalog,
                    rows |-> [t \in Tables |->
                                 IF t \in Range(catalog)
                                 THEN [i \in 1..n |-> SrcRow(t, i, 0, 1999)]
                                 ELSE << >>]]
          /\ tgt0 = InitialTarget(catalog, NoTable, "same", held, 1999)
    /\ tgt = tgt0
    /\ batch_size = DefaultBatchSize
    /\ opened = {}
    /\ closed = {}

\* An uncaught exception ends the run: the traceback is printed, the process
\* exits, and the target discards a transaction left open.
Crash(name) ==
    /\ uncaught' = name
    /\ mpc' = "ended"
    /\ ddlOpen' = FALSE

\* lines 1-79: the imports, STAGING_CREATE_SQL and the three def statements;
\* the def of connect_databases evaluates its default DATABASE_URL.
MainDefs ==
    /\ mpc = "start"
    /\ IF "DATABASE_URL" \in ns
       THEN mpc' = "get_db_url" /\ UNCHANGED <<uncaught, ddlOpen>>
       ELSE Crash("NameError")
    /\ UNCHANGED <<loadVars, opened, closed, ns, env, run, ddlLog, ddlCommitted, tgtAfter1>>

\* line 130 (60-68): the connection string from the four secrets.
MainGetDbUrl ==
    /\ mpc = "get_db_url"
    /\ IF env.secrets
       THEN /\ ns' = ns \cup {"DATABASE_URL"}
            /\ mpc' = "connect"
            /\ UNCHANGED <<uncaught, ddlOpen>>
       ELSE Crash("KeyError") /\ UNCHANGED ns
    /\ UNCHANGED <<loadVars, opened, closed, env, run, ddlLog, ddlCommitted, tgtAfter1>>

\* line 133: conn_s, conn_p = connect_databases(...); None does not unpack.
MainConnect ==
    /\ mpc = "connect"
    /\ LET res == ConnectDatabases(env, ns)
       IN /\ opened' = opened \cup res.opens
          /\ IF res.ok
             THEN mpc' = "close_source" /\ UNCHANGED <<uncaught, ddlOpen>>
             ELSE Crash("TypeError")
    /\ UNCHANGED <<loadVars, closed, ns, env, run, ddlLog, ddlCommitted, tgtAfter1>>

\* line 134: conn_s.close()
MainCloseSource ==
    /\ mpc = "close_source"
    /\ closed' = closed \cup {"conn_s"}
    /\ mpc' = "cursor"
    /\ UNCHANGED <<loadVars, opened, ns, env, run, ddlLog, ddlOpen, ddlCommitted,
                   uncaught, tgtAfter1>>

\* line 135: cur_p = conn_p.cursor()
MainCursor ==
    /\ mpc = "cursor"
    /\ opened' = opened \cup {"cur_p"}
    /\ mpc' = "execute_ddl"
    /\ UNCHANGED <<loadVars, closed, ns, env, run, ddlLog, ddlOpen, ddlCommitted,
                   uncaught, tgtAfter1>>

\* line 136: cur_p.execute(STAGING_CREATE_SQL), inside the transaction the
\* connection opens for it: the six DROPs in the script's order, then the six
\* CREATEs.
MainExecuteDDL ==
    /\ mpc = "execute_ddl"
    /\ IF env.ddl
       THEN /\ ddlLog' = DropOrder
            /\ ddlOpen' = TRUE
            /\ mpc' = "commit_ddl"
            /\ UNCHANGED uncaught
       ELSE Crash("SchemaError") /\ UNCHANGED ddlLog
    /\ UNCHANGED <<loadVars, opened, closed, ns, env, run, ddlCommitted, tgtAfter1>>

\* line 137: cur_p.commit(); a cursor has no commit.
MainCommitDDL ==
    /\ mpc = "commit_ddl"
    /\ IF "commit" \in CursorMethods
       THEN /\ tgt' = EmptyStore
            /\ ddlCommitted' = TRUE
            /\ ddlOpen' = FALSE
            /\ mpc' = "close_cursor"
            /\ UNCHANGED uncaught
       ELSE Crash("AttributeError") /\ UNCHANGED <<tgt, ddlCommitted>>
    /\ UNCHANGED <<src, tgt0, pending, batch_size, pc, tables, ti, pos, rows,
                   total_rows_table, exc, propagate, rollbacks, fetches, insertLog,
                   commits, finished, failed, opened, closed, ns, env, run, ddlLog,
                   tgtAfter1>>

\* The script is run a second time, in a new process against the same stores.
MainRunAgain ==
    /\ mpc = "ended"
    /\ run = 1
    /\ run' = 2
    /\ tgtAfter1' = tgt
    /\ mpc' = "start"
    /\ opened' = {}
    /\ closed' = {}
    /\ ddlLog' = << >>
    /\ ddlCommitted' = FALSE
    /\ uncaught' = "none"
    /\ UNCHANGED <<loadVars, ns, env, ddlOpen>>

NextMain ==
    \/ MainDefs
    \/ MainGetDbUrl
    \/ MainConnect
    \/ MainCloseSource
    \/ MainCursor
    \/ MainExecuteDDL
    \/ MainCommitDDL
    \/ MainRunAgain

SpecMain == InitMain /\ [][NextMain]_vars

\* ------------------------------------------------------------ the claims
Ended == pc \in {"returned", "raised"}

\* The sizes of the pages of a table of n rows read b at a time.
PageSizes(n, b) == [k \in 1..Ceil(n, b) |-> Min(b, n - (k - 1) * b)]

\* C1: a table of N rows read with batch size B >= 1 gets exactly ceil(N / B)
\* bulk inserts, each of at most B rows, and every insert is followed by exactly
\* one commit before the next page is fetched; a table of no rows gets no insert
\* and no commit.
C1_InsertsPerTable ==
    /\ \A t \in Tables :
          /\ \A k \in 1..Len(insertLog[t]) :
                insertLog[t][k] >= 1 /\ insertLog[t][k] <= batch_size
          /\ commits[t] <= Len(insertLog[t])
          /\ Len(insertLog[t]) <= commits[t] + 1
    /\ pc = "fetch" => commits[Table] = Len(insertLog[Table])
    /\ \A t \in finished :
          LET N == Len(src.rows[t])
          IN /\ Len(insertLog[t]) = Ceil(N, batch_size)
             /\ insertLog[t] = PageSizes(N, batch_size)
             /\ commits[t] = Ceil(N, batch_size)
             /\ N = 0 => insertLog[t] = << >> /\ commits[t] = 0

\* Five rows read two at a time: inserts of 2, 2 and 1 rows, three commits.
C1_Witness ==
    \E t \in finished :
        /\ Len(src.rows[t]) = 5
        /\ batch_size = 2
        /\ insertLog[t] = <<2, 2, 1>>
        /\ commits[t] = 3

FailedRows == src.rows[failed.table]

EarlierPages == 1..Min((failed.page - 1) * batch_size, Len(FailedRows))

LaterPages == ((failed.page - 1) * batch_size + 1)..Len(FailedRows)

\* C3, as stated: when the insert of page k raised, at the end of the run every
\* row of pages 1..k-1 of the table is in the target and no row of page k or of a
\* later page is.
C3_Original ==
    (Ended /\ failed # NoFail) =>
        /\ \A i \in EarlierPages : Coerce(failed.table, FailedRows[i]) \in tgt[failed.table]
        /\ \A i \in LaterPages : Coerce(failed.table, FailedRows[i]) \notin tgt[failed.table]

\* C3, amended: when the insert of page k raised, at the end of the run every
\* row of pages 1..k-1 that collided with no row the target held before the run
\* is committed in the target, and of page k and the later pages the target
\* holds only what it held before the run.
C3_FailedPageOnly ==
    (Ended /\ failed # NoFail) =>
        LET t == failed.table
        IN /\ \A i \in EarlierPages :
                 (~ \E e \in tgt0[t] :
                       e.id = FailedRows[i].id
                       \/ (t \in UniqueTables /\ e.name = FailedRows[i].name))
                 => Coerce(t, FailedRows[i]) \in tgt[t]
           /\ \A i \in LaterPages :
                 Coerce(t, FailedRows[i]) \in tgt[t] => Coerce(t, FailedRows[i]) \in tgt0[t]
           /\ \A e \in tgt[t] \ tgt0[t] :
                 \E i \in EarlierPages : e = Coerce(t, FailedRows[i])

\* The insert of a second or later page raised after an earlier page put a row
\* into the target.
C3_Witness ==
    /\ Ended
    /\ failed # NoFail
    /\ failed.page >= 2
    /\ \E i \in EarlierPages :
          Coerce(failed.table, FailedRows[i]) \in tgt[failed.table] \ tgt0[failed.table]
    /\ LaterPages # {}

\* The page in hand holds a row whose primary key the target's table holds.
PageHasDuplicateKey ==
    \E i \in 1..Len(rows) : \E e \in tgt[Table] : e.id = rows[i].id

\* The rows of the page in hand that collide with no row of the table.
NonConflicting ==
    {Coerce(Table, rows[i]) : i \in {j \in 1..Len(rows) :
        ~ \E e \in tgt[Table] :
             e.id = rows[j].id \/ (Table \in UniqueTables /\ e.name = rows[j].name)}}

\* The insert of a page with a duplicate primary key raises only if a row it
\* would add has a foreign key that does not resolve, never for the duplicate;
\* when it does not raise it adds exactly the rows that collide with nothing.
C5_InsertStep ==
    (pc = "insert" /\ PageHasDuplicateKey /\ exc' # "target") =>
        /\ pc' = "except" => \E r \in NonConflicting : ~FKResolves(tgt, Table, r)
        /\ pc' = "commit" => pending' = NonConflicting
        /\ tgt' = tgt

\* The commit adds the page's rows to the table and changes no row it held.
C5_CommitStep ==
    (pc = "commit" /\ pc' = "fetch") =>
        /\ tgt'[Table] = tgt[Table] \cup pending
        /\ \A t \in Tables \ {Table} : tgt'[t] = tgt[t]

\* C5: a row whose primary key the target already holds raises no error, leaves
\* the row the target holds unchanged and is skipped alone: the other rows of its
\* page that collide with nothing are inserted and committed, and the target
\* never holds two rows with one primary key.
C5_DuplicateSkipped ==
    /\ [][C5_InsertStep /\ C5_CommitStep /\ \A t \in Tables : tgt[t] \subseteq tgt'[t]]_vars
    /\ [](\A t \in Tables : \A r, q \in tgt[t] : r.id = q.id => r = q)
    /\ []((pc = "except" /\ exc = "fk") =>
             \E i \in 1..Len(rows) : ~FKResolves(tgt, Table, rows[i]))

\* A page of a row the target held and a row it did not has been committed: the
\* first is still there alone, the second was added.
C5_Witness ==
    /\ pc = "fetch"
    /\ Len(rows) >= 2
    /\ commits[Table] >= 1
    /\ \E i \in 1..Len(rows) :
          /\ rows[i] \in tgt0[Table]
          /\ Cardinality({e \in tgt[Table] : e.id = rows[i].id}) = 1
    /\ \E j \in 1..Len(rows) : Coerce(Table, rows[j]) \in tgt[Table] \ tgt0[Table]

\* C10: once the try block has raised, the transaction is rolled back exactly
\* once and the loop never resumes: no page is fetched, no insert or commit is
\* issued, no later table is started, and what was committed stays committed.
C10_NoResume ==
    /\ [][exc # "none" =>
            /\ fetches' = fetches
            /\ insertLog' = insertLog
            /\ commits' = commits
            /\ tgt' = tgt
            /\ ti' = ti
            /\ pc' \in {"except", "finally", "returned", "raised"}
            /\ exc' = exc]_vars
    /\ []((Ended /\ exc # "none") => rollbacks = 1)
    /\ [](rollbacks <= 1)
    /\ [](exc = "none" => rollbacks = 0)

\* The run ended after an exception in the first of two tables, one page of it
\* committed: one rollback, the page still there, the second table never started.
C10_Witness ==
    /\ Ended
    /\ exc # "none"
    /\ rollbacks = 1
    /\ ti < Len(tables)
    /\ commits[Table] >= 1
    /\ tgt[Table] # tgt0[Table]
    /\ insertLog[tables[Len(tables)]] = << >>

\* ------------------------------------------------- the claims on the script
\* Both stores can be reached, the secrets are there, the target accepts the DDL.
AllWell == env.secrets /\ env.source /\ env.target /\ env.ddl

\* The paged transfer has been entered.
TransferReached == pc # "idle"

C6_Original == mpc = "ended" => opened \subseteq closed

\* C7, as stated: with both stores reachable and the DDL accepted, the run
\* commits the schema and then reaches the paged transfer; no insert is issued
\* before the schema commit.
C7_Original ==
    /\ (mpc = "ended" /\ AllWell) => (ddlCommitted /\ TransferReached)
    /\ ~ddlCommitted => insertLog = ZeroLog

\* C8, as stated: the tables are dropped in an order in which every table is
\* dropped before any table it references.
C8_Original ==
    \A i, j \in 1..Len(ddlLog) : ddlLog[j] \in References(ddlLog[i]) => i < j

\* C9: if the source or the target cannot be connected to, the run ends with an
\* uncaught exception before any work: no DDL statement is executed, no row is
\* read from the source, no insert or commit reaches the target.
C9_AbortBeforeWork ==
    (~env.source \/ ~env.target) =>
        /\ ddlLog = << >>
        /\ ~ddlOpen
        /\ ~ddlCommitted
        /\ pc = "idle"
        /\ fetches = 0
        /\ insertLog = ZeroLog
        /\ commits = ZeroCount
        /\ tgt = tgt0
        /\ mpc = "ended" => uncaught # "none"

\* The connection attempt was made with the target out of reach, and the run
\* ended on the None it returned.
C9_Witness ==
    /\ mpc = "ended"
    /\ uncaught = "TypeError"
    /\ FreeNames \subseteq ns
    /\ env.source
    /\ ~env.target
    /\ env.ddl

====
